---- MODULE Spec2Model ----
(***************************************************************************)
(* A model of bot.py: the due-date inference engine (infer_due_datetime,   *)
(* the numeric date extractor and its helpers) and the message handler.    *)
(*                                                                         *)
(* Text is a sequence of one-character strings.  The module is ASCII, so   *)
(* every Cyrillic letter of the source is written as one Latin letter      *)
(* (lengths and word boundaries are kept):                                 *)
(*   a-a b-be v-ve g-ghe d-de e-ie z-ze i-i j-short i k-ka l-el m-em n-en   *)
(*   o-o p-pe r-er s-es t-te u-u f-ef h-tse c-che y-yeru x-soft sign       *)
(*   w-yu q-ya                                                             *)
(* so "utra" is the daypart of line 31, "dnq" the next one, "zavtra" the   *)
(* relative word of line 26, "sozvon v 15" the words of the scenario.      *)
(*                                                                         *)
(* A datetime is a record of wall-clock fields in the configured timezone, *)
(* which is modelled as a fixed-offset zone: Python compares two datetimes *)
(* that share one tzinfo by their wall-clock fields.                       *)
(***************************************************************************)
EXTENDS Integers, Sequences, FiniteSets, TLC

\* ---------------------------------------------------------------- options
\* Optional[T]: <<>> is None, <<v>> is a value.
None == <<>>
Some(v) == <<v>>
IsNone(o) == Len(o) = 0
Get(o) == o[1]

\* The outcome of a call: a returned value, or an exception that left it.
Return(v) == [raised |-> FALSE, val |-> <<v>>]
Raise == [raised |-> TRUE, val |-> <<>>]
Val(r) == r.val[1]

\* F applied to the value of v, which is computed once.
Apply(F(_), v) == CHOOSE r \in {F(x) : x \in {v}} : TRUE

Min(a, b) == IF a < b THEN a ELSE b
Max(a, b) == IF a > b THEN a ELSE b

\* ------------------------------------------------------------- characters
Digits == {"0", "1", "2", "3", "4", "5", "6", "7", "8", "9"}
UpperCase == <<"A", "B", "C", "D", "E", "F", "G", "H", "I", "J", "K", "L", "M",
               "N", "O", "P", "Q", "R", "S", "T", "U", "V", "W", "X", "Y", "Z">>
LowerCase == <<"a", "b", "c", "d", "e", "f", "g", "h", "i", "j", "k", "l", "m",
               "n", "o", "p", "q", "r", "s", "t", "u", "v", "w", "x", "y", "z">>
Letters == {UpperCase[i] : i \in 1..26} \cup {LowerCase[i] : i \in 1..26}
Whitespace == {" "}

IsDigit(c) == c \in Digits
\* \w of the regular expressions: letters, digits, underscore.
WordChars == Letters \cup Digits \cup {"_"}
IsWord(c) == c \in WordChars
\* re.IGNORECASE: characters are compared lower-cased.
LowerOf ==
    [c \in Letters |->
       IF \E i \in 1..26 : UpperCase[i] = c
       THEN LowerCase[CHOOSE i \in 1..26 : UpperCase[i] = c]
       ELSE c]
Lower(c) == IF c \in Letters THEN LowerOf[c] ELSE c

DigitVal(c) ==
    CASE c = "0" -> 0 [] c = "1" -> 1 [] c = "2" -> 2 [] c = "3" -> 3
      [] c = "4" -> 4 [] c = "5" -> 5 [] c = "6" -> 6 [] c = "7" -> 7
      [] c = "8" -> 8 [] c = "9" -> 9

\* text[a:b] of Python on 1-based positions: the characters a..b, clipped.
Slice(s, a, b) == SubSeq(s, Max(1, a), Min(Len(s), b))

\* \b before position p (between the characters p-1 and p).
WordAt(s, p) == p >= 1 /\ p <= Len(s) /\ IsWord(s[p])
Boundary(s, p) == WordAt(s, p - 1) # WordAt(s, p)

\* \d{n} at position i.
DigitsAt(s, i, n) == i + n - 1 <= Len(s) /\ \A k \in 0..(n - 1) : IsDigit(s[i + k])
CharIn(s, i, set) == i >= 1 /\ i <= Len(s) /\ s[i] \in set
\* A literal word at position i, ignoring case.
LiteralAt(s, i, w) ==
    i + Len(w) - 1 <= Len(s) /\ \A k \in 1..Len(w) : Lower(s[i + k - 1]) = w[k]

\* The first positive element of seq, or 0.
FirstPositiveOf(q) ==
    IF \E k \in 1..Len(q) : q[k] > 0
    THEN q[CHOOSE k \in 1..Len(q) : q[k] > 0 /\ \A j \in 1..(k - 1) : q[j] <= 0]
    ELSE 0
FirstPositive(seq) == Apply(FirstPositiveOf, seq)

\* int(s): the value of a digit string, ValueError (Raise) otherwise.
DigitsValue(s) ==
    LET value[n \in 0..Len(s)] ==
          IF n = 0 THEN 0 ELSE value[n - 1] * 10 + DigitVal(s[n])
    IN value[Len(s)]
IntOfText(s) ==
    IF Len(s) > 0 /\ \A k \in 1..Len(s) : IsDigit(s[k])
    THEN Return(DigitsValue(s))
    ELSE Raise
IntOf(s) == Apply(IntOfText, s)

\* re.split / str.split on a set of one-character separators.
SplitText(s, seps) ==
    LET \* the parts of the characters from..Len(s)
        parts[from \in 1..(Len(s) + 1)] ==
          IF \E k \in from..Len(s) : s[k] \in seps
          THEN LET k == CHOOSE j \in from..Len(s) :
                            s[j] \in seps /\ \A h \in from..(j - 1) : s[h] \notin seps
               IN <<SubSeq(s, from, k - 1)>> \o parts[k + 1]
          ELSE <<SubSeq(s, from, Len(s))>>
    IN parts[1]
SplitOn(s, seps) == Apply(LAMBDA x : SplitText(x, seps), s)

\* str.replace(".", ":")
ReplaceDot(s) == [k \in 1..Len(s) |-> IF s[k] = "." THEN ":" ELSE s[k]]

\* --------------------------------------------------------------- calendar
IsLeap(y) == (y % 4 = 0 /\ y % 100 # 0) \/ y % 400 = 0
DaysInMonth(y, m) ==
    IF m = 2 THEN (IF IsLeap(y) THEN 29 ELSE 28)
    ELSE IF m \in {4, 6, 9, 11} THEN 30 ELSE 31

\* datetime(year, month, day).date(): a date, or ValueError.
DateCtor(year, month, day) ==
    IF /\ year >= 1 /\ year <= 9999
       /\ month >= 1 /\ month <= 12
       /\ day >= 1 /\ day <= DaysInMonth(year, month)
    THEN Return([year |-> year, month |-> month, day |-> day])
    ELSE Raise

\* time(hour=hour, minute=minute): a time of day, or ValueError.
TimeCtor(hour, minute) ==
    IF hour >= 0 /\ hour <= 23 /\ minute >= 0 /\ minute <= 59
    THEN Return([hour |-> hour, minute |-> minute, second |-> 0])
    ELSE Raise

DateOf(dt) == [year |-> dt.year, month |-> dt.month, day |-> dt.day]
TimeOf(dt) == [hour |-> dt.hour, minute |-> dt.minute, second |-> dt.second]
\* datetime.combine(date, time, tzinfo=timezone)
Combine(d, t) ==
    [year |-> d.year, month |-> d.month, day |-> d.day,
     hour |-> t.hour, minute |-> t.minute, second |-> t.second]

DateLess(a, b) ==
    \/ a.year < b.year
    \/ a.year = b.year /\ a.month < b.month
    \/ a.year = b.year /\ a.month = b.month /\ a.day < b.day
SecondsOfDay(t) == (t.hour * 60 + t.minute) * 60 + t.second
\* a < b on datetimes of one timezone.
DtLess(a, b) ==
    \/ DateLess(DateOf(a), DateOf(b))
    \/ DateOf(a) = DateOf(b) /\ SecondsOfDay(TimeOf(a)) < SecondsOfDay(TimeOf(b))
DtGreater(a, b) == DtLess(b, a)
DtLessEq(a, b) == ~DtLess(b, a)

NextDay(d) ==
    IF d.day < DaysInMonth(d.year, d.month) THEN [d EXCEPT !.day = d.day + 1]
    ELSE IF d.month < 12 THEN [d EXCEPT !.month = d.month + 1, !.day = 1]
    ELSE [year |-> d.year + 1, month |-> 1, day |-> 1]
\* dt + timedelta(days=1)
PlusOneDay(dt) == Combine(NextDay(DateOf(dt)), TimeOf(dt))

\* ---------------------------------------------------- regular expressions
\* A match is [start, end]: the characters start..end-1 (end is exclusive).
NoMatch == [start |-> 0, end |-> 0]
IsMatch(m) == m.start > 0
MatchText(s, m) == SubSeq(s, m.start, m.end - 1)

DateSeps == {".", "/", "-"}
\* The backtracking order of \d{1,2} sep \d{1,2} (sep \d{2,4})?: each
\* quantifier is greedy, and the last one gives way first.  <<a, b, c>> are
\* the digits of the day, of the month and of the year (0: no year group).
DateShapes ==
    << <<2, 2, 4>>, <<2, 2, 3>>, <<2, 2, 2>>, <<2, 2, 0>>,
       <<2, 1, 4>>, <<2, 1, 3>>, <<2, 1, 2>>, <<2, 1, 0>>,
       <<1, 2, 4>>, <<1, 2, 3>>, <<1, 2, 2>>, <<1, 2, 0>>,
       <<1, 1, 4>>, <<1, 1, 3>>, <<1, 1, 2>>, <<1, 1, 0>> >>
DateShapeEnd(s, i, sh) ==
    LET a == sh[1]
        b == sh[2]
        c == sh[3]
        e0 == i + a + 1 + b
        e == IF c = 0 THEN e0 ELSE e0 + 1 + c
    IN IF /\ Boundary(s, i)
          /\ DigitsAt(s, i, a)
          /\ CharIn(s, i + a, DateSeps)
          /\ DigitsAt(s, i + a + 1, b)
          /\ (c > 0 => CharIn(s, e0, DateSeps) /\ DigitsAt(s, e0 + 1, c))
          /\ Boundary(s, e)
       THEN e ELSE 0
\* \b\d{1,2}[./-]\d{1,2}(?:[./-]\d{2,4})?\b at position i: the end, or 0.
NumericDateEndAt(s, i) ==
    IF CharIn(s, i, Digits) /\ Boundary(s, i)
    THEN FirstPositive([k \in 1..Len(DateShapes) |-> DateShapeEnd(s, i, DateShapes[k])])
    ELSE 0

\* re.finditer of the numeric date pattern: the matches, left to right.
NumericDateMatchesOf(s) ==
    LET from[i \in 1..(Len(s) + 1)] ==
          IF i > Len(s) THEN <<>>
          ELSE Apply(LAMBDA e : IF e > 0
                                THEN <<[start |-> i, end |-> e]>> \o from[e]
                                ELSE from[i + 1],
                     NumericDateEndAt(s, i))
    IN from[1]
NumericDateMatches(s) == Apply(NumericDateMatchesOf, s)

\* TIME_PATTERN, first alternative: \b\d{1,2}[:.]\d{2}\b
ClockEndFor(s, i, a) ==
    IF /\ Boundary(s, i)
       /\ DigitsAt(s, i, a)
       /\ CharIn(s, i + a, {":", "."})
       /\ DigitsAt(s, i + a + 1, 2)
       /\ Boundary(s, i + a + 3)
    THEN i + a + 3 ELSE 0
ClockEndAt(s, i) == FirstPositive(<<ClockEndFor(s, i, 2), ClockEndFor(s, i, 1)>>)

\* TIME_PATTERN, second alternative: \b\d{1,2}\s*(?:am|pm|utra|dnq|vecera|noci)\b
DaypartWords ==
    << <<"a", "m">>, <<"p", "m">>, <<"u", "t", "r", "a">>, <<"d", "n", "q">>,
       <<"v", "e", "c", "e", "r", "a">>, <<"n", "o", "c", "i">> >>
SpacesFrom(s, i) ==
    LET run[j \in i..(Len(s) + 1)] ==
          IF CharIn(s, j, Whitespace) THEN 1 + run[j + 1] ELSE 0
    IN IF i > Len(s) THEN 0 ELSE run[i]
WordEndAt(s, i, w) ==
    IF LiteralAt(s, i, w) /\ Boundary(s, i + Len(w)) THEN i + Len(w) ELSE 0
\* \s* is greedy and gives back one space at a time: k spaces, most first.
DaypartEndFor(s, i, a) ==
    IF Boundary(s, i) /\ DigitsAt(s, i, a)
    THEN Apply(LAMBDA n :
                 FirstPositive(
                   [j \in 1..((n + 1) * Len(DaypartWords)) |->
                      LET k == n - ((j - 1) \div Len(DaypartWords))
                          w == DaypartWords[((j - 1) % Len(DaypartWords)) + 1]
                      IN WordEndAt(s, i + a + k, w)]),
               SpacesFrom(s, i + a))
    ELSE 0
DaypartEndAt(s, i) == FirstPositive(<<DaypartEndFor(s, i, 2), DaypartEndFor(s, i, 1)>>)

TimeEndAt(s, i) ==
    IF CharIn(s, i, Digits) /\ Boundary(s, i)
    THEN FirstPositive(<<ClockEndAt(s, i), DaypartEndAt(s, i)>>)
    ELSE 0
\* TIME_PATTERN.search(s): the leftmost match, or NoMatch.
TimeSearch(s) ==
    LET from[i \in 1..(Len(s) + 1)] ==
          IF i > Len(s) THEN NoMatch
          ELSE Apply(LAMBDA e : IF e > 0 THEN [start |-> i, end |-> e] ELSE from[i + 1],
                     TimeEndAt(s, i))
    IN from[1]
TIME_PATTERN(s) == Apply(TimeSearch, s)

\* DATE_PATTERN, the word alternatives: months, weekdays, relative days.
DateWords ==
    { <<"q", "n", "v", "a", "r", "x">>, <<"q", "n", "v", "a", "r", "q">>,
      <<"f", "e", "v", "r", "a", "l", "x">>, <<"f", "e", "v", "r", "a", "l", "q">>,
      <<"m", "a", "r", "t">>, <<"m", "a", "r", "t", "a">>,
      <<"a", "p", "r", "e", "l", "x">>, <<"a", "p", "r", "e", "l", "q">>,
      <<"m", "a", "j">>, <<"m", "a", "q">>,
      <<"i", "w", "n", "x">>, <<"i", "w", "n", "q">>,
      <<"i", "w", "l", "x">>, <<"i", "w", "l", "q">>,
      <<"a", "v", "g", "u", "s", "t">>, <<"a", "v", "g", "u", "s", "t", "a">>,
      <<"s", "e", "n", "t", "q", "b", "r", "x">>, <<"s", "e", "n", "t", "q", "b", "r", "q">>,
      <<"o", "k", "t", "q", "b", "r", "x">>, <<"o", "k", "t", "q", "b", "r", "q">>,
      <<"n", "o", "q", "b", "r", "x">>, <<"n", "o", "q", "b", "r", "q">>,
      <<"d", "e", "k", "a", "b", "r", "x">>, <<"d", "e", "k", "a", "b", "r", "q">>,
      <<"p", "o", "n", "e", "d", "e", "l", "x", "n", "i", "k">>,
      <<"v", "t", "o", "r", "n", "i", "k">>, <<"s", "r", "e", "d", "a">>,
      <<"c", "e", "t", "v", "e", "r", "g">>, <<"p", "q", "t", "n", "i", "h", "a">>,
      <<"s", "u", "b", "b", "o", "t", "a">>,
      <<"v", "o", "s", "k", "r", "e", "s", "e", "n", "x", "e">>,
      <<"s", "e", "g", "o", "d", "n", "q">>, <<"z", "a", "v", "t", "r", "a">>,
      <<"p", "o", "s", "l", "e", "z", "a", "v", "t", "r", "a">> }
DateWordAt(s, i) ==
    CharIn(s, i, Letters) /\ Boundary(s, i) /\ \E w \in DateWords : WordEndAt(s, i, w) > 0
\* bool(DATE_PATTERN.search(s))
DateSearch(s) ==
    \E i \in 1..Len(s) : NumericDateEndAt(s, i) > 0 \/ DateWordAt(s, i)
HasDate(s) == Apply(DateSearch, s)
\* bool(TIME_PATTERN.search(s))
HasTime(s) == IsMatch(TIME_PATTERN(s))

\* ------------------------------------------------- the external recognizer
\* A moment returned by the date recognizer (dateparser): wall-clock fields
\* in the moment's own zone, and off, the minutes its zone lies behind the
\* configured one (0 when the text names no zone of its own).
Moment(dt, off) ==
    [year |-> dt.year, month |-> dt.month, day |-> dt.day,
     hour |-> dt.hour, minute |-> dt.minute, second |-> dt.second, off |-> off]
TimeOfSeconds(n) ==
    [hour |-> n \div 3600, minute |-> (n % 3600) \div 60, second |-> n % 60]
\* m.astimezone(timezone): the same instant on the configured zone's clock.
AsTimezone(m) ==
    LET total == SecondsOfDay(TimeOf(m)) + m.off * 60
    IN IF total < 86400
       THEN Combine(DateOf(m), TimeOfSeconds(total))
       ELSE Combine(NextDay(DateOf(m)), TimeOfSeconds(total - 86400))

\* ------------------------------------------------------ numeric extractor
DefaultTime == [hour |-> 23, minute |-> 0, second |-> 0]

\* The parse without the roll-forward of a year-less date that has passed.
ParseDateParts_NoRoll(parts, now) ==
    IF Len(parts) < 2 THEN Return(None)
    ELSE
      LET day == IntOf(parts[1])
          month == IntOf(parts[2])
          given == IF Len(parts) >= 3 THEN IntOf(parts[3]) ELSE Return(now.year)
          year == IF given.raised THEN 0
                  ELSE IF Len(parts) >= 3 /\ Val(given) < 100
                       THEN Val(given) + 2000 ELSE Val(given)
          first == IF day.raised \/ month.raised \/ given.raised THEN Raise
                   ELSE DateCtor(year, Val(month), Val(day))
      IN IF first.raised THEN Return(None) ELSE Return(Some(Val(first)))
\* _parse_numeric_date(date_text, now): Optional[date]
ParseDateParts(parts, now) ==
    IF Len(parts) < 2 THEN Return(None)
    ELSE
      LET day == IntOf(parts[1])
          month == IntOf(parts[2])
          given == IF Len(parts) >= 3 THEN IntOf(parts[3]) ELSE Return(now.year)
          year == IF given.raised THEN 0
                  ELSE IF Len(parts) >= 3 /\ Val(given) < 100
                       THEN Val(given) + 2000 ELSE Val(given)
          first == IF day.raised \/ month.raised \/ given.raised THEN Raise
                   ELSE DateCtor(year, Val(month), Val(day))
          again == DateCtor(year + 1, Val(month), Val(day))
      IN IF first.raised THEN Return(None)
         ELSE IF Len(parts) < 3 /\ DateLess(Val(first), DateOf(now))
              THEN (IF again.raised THEN Return(None) ELSE Return(Some(Val(again))))
              ELSE Return(Some(Val(first)))
_parse_numeric_date(date_text, now) ==
    Apply(LAMBDA parts : ParseDateParts(parts, now), SplitOn(date_text, DateSeps))

\* The clock parse without its except ValueError.
ParseClockParts_Uncaught(parts) ==
    LET hour == IntOf(parts[1])
        minute == IF Len(parts) > 1 THEN IntOf(parts[2]) ELSE Return(0)
        made == IF hour.raised \/ minute.raised THEN Raise
                ELSE TimeCtor(Val(hour), Val(minute))
    IN IF made.raised THEN Raise ELSE Return(Some(Val(made)))
\* _parse_time_text(time_text, now, timezone): Optional[time].  pd is what
\* parse_date answers for a worded time of day: None or a moment.
ParseClockParts(parts) ==
    LET hour == IntOf(parts[1])
        minute == IF Len(parts) > 1 THEN IntOf(parts[2]) ELSE Return(0)
        made == IF hour.raised \/ minute.raised THEN Raise
                ELSE TimeCtor(Val(hour), Val(minute))
    IN IF made.raised THEN Return(None) ELSE Return(Some(Val(made)))
_parse_time_text(time_text, pd) ==
    IF \E k \in 1..Len(time_text) : time_text[k] \in {":", "."}
    THEN Apply(ParseClockParts, SplitOn(ReplaceDot(time_text), {":"}))
    ELSE IF ~IsNone(pd) THEN Return(Some(TimeOf(AsTimezone(Get(pd)))))
         ELSE Return(None)

WindowBefore == 12
WindowAfter == 20
\* The time found in a window, if the window holds one.
TimeInWindow(window, pd) ==
    Apply(LAMBDA m : IF IsMatch(m)
                     THEN Some(_parse_time_text(MatchText(window, m), pd))
                     ELSE None,
          TIME_PATTERN(window))
\* The search with an after-window that starts at the match, not after it.
_find_time_near_match_Overlap(text, match, pd) ==
    LET window_before == Slice(text, match.start - WindowBefore, match.start - 1)
        window_after == Slice(text, match.start, match.end + WindowAfter - 1)
    IN Apply(LAMBDA after :
               IF ~IsNone(after) THEN Get(after)
               ELSE Apply(LAMBDA before :
                            IF ~IsNone(before) THEN Get(before) ELSE Return(None),
                          Apply(LAMBDA w : TimeInWindow(w, pd), window_before)),
             Apply(LAMBDA w : TimeInWindow(w, pd), window_after))
\* _find_time_near_match(text, match, now, timezone): Optional[time]
_find_time_near_match(text, match, pd) ==
    LET window_before == Slice(text, match.start - WindowBefore, match.start - 1)
        window_after == Slice(text, match.end, match.end + WindowAfter - 1)
    IN Apply(LAMBDA after :
               IF ~IsNone(after) THEN Get(after)
               ELSE Apply(LAMBDA before :
                            IF ~IsNone(before) THEN Get(before) ELSE Return(None),
                          Apply(LAMBDA w : TimeInWindow(w, pd), window_before)),
             Apply(LAMBDA w : TimeInWindow(w, pd), window_after))

\* sorted(candidates, key=position): a stable insertion sort.
InsertByPosition(sorted, c) ==
    LET n == Cardinality({k \in 1..Len(sorted) : sorted[k].position <= c.position})
    IN SubSeq(sorted, 1, n) \o <<c>> \o SubSeq(sorted, n + 1, Len(sorted))
SortCandidates(cs) ==
    LET upTo[n \in 0..Len(cs)] ==
          IF n = 0 THEN <<>>
          ELSE Apply(LAMBDA done : InsertByPosition(done, cs[n]), upTo[n - 1])
    IN upTo[Len(cs)]
SortByPosition(cs) == Apply(SortCandidates, cs)

\* One pass of the loop of _extract_numeric_date_candidates: the candidate
\* of one match, or nothing when its date is no calendar date.
CandidateOfDate(text, match, date_value, pd) ==
    IF date_value.raised THEN Raise
    ELSE IF IsNone(Val(date_value)) THEN Return(<<>>)
    ELSE Apply(LAMBDA time_value :
                 IF time_value.raised THEN Raise
                 ELSE Return(<<[datetime |-> Combine(Get(Val(date_value)),
                                                     IF IsNone(Val(time_value))
                                                     THEN DefaultTime
                                                     ELSE Get(Val(time_value))),
                                has_time |-> ~IsNone(Val(time_value)),
                                position |-> match.start - 1]>>),
               _find_time_near_match(text, match, pd))
CandidateOf(text, match, now, pd) ==
    Apply(LAMBDA date_value : CandidateOfDate(text, match, date_value, pd),
          _parse_numeric_date(MatchText(text, match), now))
\* The loop over the matches ms, in their order.
CandidatesOf(text, ms, now, pd) ==
    LET upTo[n \in 0..Len(ms)] ==
          IF n = 0 THEN Return(<<>>)
          ELSE Apply(LAMBDA done :
                       IF done.raised THEN Raise
                       ELSE Apply(LAMBDA one :
                                    IF one.raised THEN Raise
                                    ELSE Return(Val(done) \o Val(one)),
                                  CandidateOf(text, ms[n], now, pd)),
                     upTo[n - 1])
    IN upTo[Len(ms)]

\* _extract_numeric_date_candidates(message_text, now, timezone)
_extract_numeric_date_candidates(text, now, pd) ==
    Apply(LAMBDA found : IF found.raised THEN Raise
                         ELSE Return(SortByPosition(Val(found))),
          Apply(LAMBDA ms : CandidatesOf(text, ms, now, pd), NumericDateMatches(text)))

\* ------------------------------------------------------ infer_due_datetime
\* default_due = datetime.combine(now.date(), time(23, 0), tzinfo=timezone)
DefaultDue(now) == Combine(DateOf(now), DefaultTime)

\* The loop over the candidates: the first with a time that is after now.
FirstTimedAfter(cands, now) ==
    LET from[i \in 1..(Len(cands) + 1)] ==
          IF i > Len(cands) THEN None
          ELSE IF cands[i].has_time /\ DtGreater(cands[i].datetime, now)
               THEN Some(cands[i].datetime)
               ELSE from[i + 1]
    IN from[1]
\* A selection whose fallback is the first candidate after now, timed or not.
SelectNumeric_FirstAfter(cands, now) ==
    LET timed == FirstTimedAfter(cands, now)
        after == {k \in 1..Len(cands) : DtGreater(cands[k].datetime, now)}
    IN IF ~IsNone(timed) THEN Get(timed)
       ELSE IF after # {}
            THEN cands[CHOOSE k \in after : \A j \in after : k <= j].datetime
            ELSE DefaultDue(now)
\* The branch taken when the numeric extractor found candidates.
SelectNumeric(cands, now) ==
    LET timed == FirstTimedAfter(cands, now)
    IN IF ~IsNone(timed) THEN Get(timed)
       ELSE IF DtGreater(cands[1].datetime, now) THEN cands[1].datetime
       ELSE DefaultDue(now)

\* The loop that labels the matches of search_dates.  A match is
\* [text, parsed]; the labels are Optional moments.
NoLabels == [combined |-> None, date |-> None, time |-> None]
\* A pass that keeps looping after a combined match: the last one wins.
ClassifyOne_NoBreak(acc, m, has_date, has_time) ==
    IF has_date /\ has_time THEN [acc EXCEPT !.combined = Some(m.parsed)]
    ELSE [acc EXCEPT
            !.date = IF has_date /\ IsNone(acc.date) THEN Some(m.parsed) ELSE @,
            !.time = IF has_time /\ ~has_date /\ IsNone(acc.time)
                     THEN Some(m.parsed) ELSE @]
\* One pass of the loop: the labels after the match m (a combined match
\* ends the loop, so nothing after it changes the labels).
ClassifyOne(acc, m, has_date, has_time) ==
    IF ~IsNone(acc.combined) THEN acc
    ELSE IF has_date /\ has_time THEN [acc EXCEPT !.combined = Some(m.parsed)]
    ELSE [acc EXCEPT
            !.date = IF has_date /\ IsNone(acc.date) THEN Some(m.parsed) ELSE @,
            !.time = IF has_time /\ ~has_date /\ IsNone(acc.time)
                     THEN Some(m.parsed) ELSE @]
ClassifyMatches(ms) ==
    LET upTo[n \in 0..Len(ms)] ==
          IF n = 0 THEN NoLabels
          ELSE Apply(LAMBDA acc :
                       Apply(LAMBDA has_date :
                               Apply(LAMBDA has_time :
                                       ClassifyOne(acc, ms[n], has_date, has_time),
                                     HasTime(ms[n].text)),
                             HasDate(ms[n].text)),
                     upTo[n - 1])
    IN upTo[Len(ms)]

\* The ladder without the roll-forward of a time of day that has passed.
ResolveMatches_NoRoll(labels, ms, now) ==
    IF ~IsNone(labels.combined) THEN AsTimezone(Get(labels.combined))
    ELSE IF ~IsNone(labels.date) /\ ~IsNone(labels.time)
    THEN Combine(DateOf(AsTimezone(Get(labels.date))), TimeOf(Get(labels.time)))
    ELSE IF ~IsNone(labels.date)
    THEN Combine(DateOf(AsTimezone(Get(labels.date))), DefaultTime)
    ELSE IF ~IsNone(labels.time)
    THEN Combine(DateOf(now), TimeOf(Get(labels.time)))
    ELSE AsTimezone(ms[1].parsed)
\* The ladder over the labels: the moment before the final guard.
ResolveMatches(labels, ms, now) ==
    IF ~IsNone(labels.combined) THEN AsTimezone(Get(labels.combined))
    ELSE IF ~IsNone(labels.date) /\ ~IsNone(labels.time)
    THEN Combine(DateOf(AsTimezone(Get(labels.date))), TimeOf(Get(labels.time)))
    ELSE IF ~IsNone(labels.date)
    THEN Combine(DateOf(AsTimezone(Get(labels.date))), DefaultTime)
    ELSE IF ~IsNone(labels.time)
    THEN LET due == Combine(DateOf(now), TimeOf(Get(labels.time)))
         IN IF DtLessEq(due, now) THEN PlusOneDay(due) ELSE due
    ELSE AsTimezone(ms[1].parsed)

\* The return without its guard.
FinalGuard_Unguarded(due, now) == due
\* if due <= now: return default_due
FinalGuard(due, now) == IF DtLessEq(due, now) THEN DefaultDue(now) ELSE due

\* infer_due_datetime(message_text, now, timezone) as one function of its
\* inputs and of the external answers: sr of search_dates, pd of parse_date.
infer_due_datetime(message_text, now, sr, pd) ==
    LET numeric_candidates == _extract_numeric_date_candidates(message_text, now, pd)
    IN IF numeric_candidates.raised THEN Raise
       ELSE IF Len(Val(numeric_candidates)) > 0
       THEN Return(SelectNumeric(Val(numeric_candidates), now))
       ELSE IF Len(sr) = 0 THEN Return(DefaultDue(now))
       ELSE Return(FinalGuard(ResolveMatches(ClassifyMatches(sr), sr, now), now))

\* ------------------------------------------------------------- formatting
DigitChars == <<"0", "1", "2", "3", "4", "5", "6", "7", "8", "9">>
DigitChar(k) == DigitChars[k + 1]
\* A number printed in at least `width` digits, zero-padded (%02d, %04d).
Padded(n, width) ==
    LET digits[v \in 0..n, w \in 0..width] ==
          IF w <= 1 /\ v < 10 THEN <<DigitChar(v)>>
          ELSE Append(digits[v \div 10, IF w > 0 THEN w - 1 ELSE 0], DigitChar(v % 10))
    IN digits[n, width]
\* str(n)
NumText(n) == Padded(n, 1)

\* %z of the configured zone: the sign and hhmm of its UTC offset.
OffsetText(utcoffset) ==
    LET a == IF utcoffset < 0 THEN 0 - utcoffset ELSE utcoffset
    IN <<IF utcoffset < 0 THEN "-" ELSE "+">> \o Padded(a \div 60, 2) \o Padded(a % 60, 2)
\* due_datetime.strftime("%Y-%m-%dT%H:%M:%S.000%z")
DueDateText(dt, utcoffset) ==
    Padded(dt.year, 4) \o <<"-">> \o Padded(dt.month, 2) \o <<"-">> \o Padded(dt.day, 2)
    \o <<"T">> \o Padded(dt.hour, 2) \o <<":">> \o Padded(dt.minute, 2) \o <<":">>
    \o Padded(dt.second, 2) \o <<".", "0", "0", "0">> \o OffsetText(utcoffset)
\* format_due_datetime: due_datetime.strftime("%d.%m.%Y %H:%M")
format_due_datetime(dt) ==
    Padded(dt.day, 2) \o <<".">> \o Padded(dt.month, 2) \o <<".">> \o Padded(dt.year, 4)
    \o <<" ">> \o Padded(dt.hour, 2) \o <<":">> \o Padded(dt.minute, 2)

UnknownSender ==
    <<"N", "e", "i", "z", "v", "e", "s", "t", "n", "y", "j", " ",
      "o", "t", "p", "r", "a", "v", "i", "t", "e", "l", "x">>
\* format_sender_label(sender_username, sender_name)
format_sender_label(sender_username, sender_name) ==
    IF ~IsNone(sender_username) /\ Len(Get(sender_username)) > 0
    THEN <<"@">> \o Get(sender_username)
    ELSE IF ~IsNone(sender_name) /\ Len(Get(sender_name)) > 0
         THEN Get(sender_name) ELSE UnknownSender
\* format_task_text(message_text, sender_username, sender_name)
format_task_text(message_text, sender_username, sender_name) ==
    format_sender_label(sender_username, sender_name) \o <<" ">> \o message_text

\* str.strip()
StripText(s) ==
    LET kept == {k \in 1..Len(s) : s[k] \notin Whitespace}
    IN IF kept = {} THEN <<>>
       ELSE SubSeq(s, CHOOSE a \in kept : \A k \in kept : a <= k,
                      CHOOSE b \in kept : \A k \in kept : b >= k)
Strip(s) == Apply(StripText, s)
\* str.startswith(prefix)
StartsWith(s, prefix) == Len(s) >= Len(prefix) /\ SubSeq(s, 1, Len(prefix)) = prefix

\* ================================================================ the state
VARIABLES
    text,           \* message_text given to infer_due_datetime
    now,            \* the reference moment
    searchAnswers,  \* what search_dates may answer for this text
    pc,             \* the position inside infer_due_datetime
    candidates,     \* numeric_candidates
    matches,        \* the result of search_dates
    labels,         \* combined_match, date_match, time_match
    due,            \* the moment before the final guard (Optional)
    result,         \* the returned moment (Optional)
    searchCalls,    \* how many times search_dates was called
    update,         \* the incoming chat update: [text, sender]
    config,         \* [notify_chat_id, utcoffset]
    hpc,            \* the position inside handle_message
    task_text,      \* the sender label and the stripped text
    payload,        \* the task payload (Optional)
    posts,          \* how many times the task-creation call was made
    response,       \* the status of the response (Optional)
    replies,        \* the replies sent to the sender
    notifications   \* the messages sent to the secondary recipient

engineVars == <<text, now, searchAnswers, pc, candidates, matches, labels, due, result,
                searchCalls>>
handlerVars == <<update, config, hpc, task_text, payload, posts, response,
                 replies, notifications>>
vars == <<text, now, searchAnswers, pc, candidates, matches, labels, due, result,
          searchCalls, update, config, hpc, task_text, payload, posts, response, replies,
          notifications>>

\* ------------------------------------------------------------------ inputs
MaxTokens == 2
MaxMatches == 2

At(y, mo, d, h, mi, sec) ==
    [year |-> y, month |-> mo, day |-> d, hour |-> h, minute |-> mi, second |-> sec]
\* Reference moments: the scenario's morning, an evening in a leap year, the
\* last half hour of a year, a day in the year before a leap year.
Nows ==
    { At(2024, 1, 1, 9, 0, 0), At(2024, 6, 10, 20, 0, 0),
      At(2024, 12, 31, 23, 30, 30), At(2023, 3, 1, 10, 0, 0) }

LateNows == {At(2024, 6, 10, 20, 0, 0), At(2024, 12, 31, 23, 30, 30)}

\* The words texts are made of.
Vocabulary ==
    { <<"s", "o", "z", "v", "o", "n">>, <<"v">>, <<"1", "5">>,
      <<"3", ".", "0", "9">>, <<"2", "9", ".", "0", "2">>, <<"3", "1", ".", "0", "4">>,
      <<"1", "8", ".", "0", "0">>, <<"2", "5", ":", "9", "9">>,
      <<"1", "4", ":", "3", "0">>, <<"7", " ", "u", "t", "r", "a">>,
      <<"1", "-", "0", "1", "-", "2", "0">> }
\* " ".join(words)
JoinWords(words) ==
    LET from[i \in 1..(Len(words) + 1)] ==
          IF i > Len(words) THEN <<>>
          ELSE IF i = Len(words) THEN words[i]
          ELSE words[i] \o <<" ">> \o from[i + 1]
    IN from[1]
Join(words) == Apply(JoinWords, words)
WordSeqs(n) == UNION {[1..k -> Vocabulary] : k \in 1..n}
Scenario == <<"s", "o", "z", "v", "o", "n", " ", "3", ".", "0", "9", " ", "v", " ", "1", "5">>
TokenTexts == {Join(ws) : ws \in WordSeqs(MaxTokens)} \cup {Scenario}

\* Every year-less day.month token.
DayMonthTexts == {NumText(d) \o <<".">> \o Padded(m, 2) : d \in 1..31, m \in 1..12}

\* Moments the recognizer may answer with.
Moments ==
    { Moment(At(2024, 6, 10, 18, 0, 0), 0), Moment(At(2024, 6, 11, 8, 30, 15), 0),
      Moment(At(2024, 6, 10, 23, 30, 0), 60), Moment(At(2023, 2, 28, 9, 0, 0), 0) }
\* Spans it may report: a date word, a clock time, both, neither.
Spans ==
    { <<"z", "a", "v", "t", "r", "a">>, <<"1", "8", ":", "0", "0">>,
      <<"z", "a", "v", "t", "r", "a", " ", "1", "8", ":", "0", "0">>, <<"v">> }
MatchOptions == {[text |-> sp, parsed |-> m] : sp \in Spans, m \in Moments}
MatchLists == UNION {[1..k -> MatchOptions] : k \in 0..MaxMatches}
SpansOf(ms) == Join([k \in 1..Len(ms) |-> ms[k].text])
\* The answers of search_dates tried for a text made of words: nothing, or
\* the whole text as one span with each moment.
FewAnswers(t) == {<<>>} \cup {<<[text |-> t, parsed |-> m]>> : m \in Moments}
\* The answers of parse_date for a worded time of day.  It is called only
\* on a snippet the second alternative of TIME_PATTERN matched, so a text
\* with no such snippet never consults it.
ParseDateAnswers(t) ==
    IF \E i \in 1..Len(t) : CharIn(t, i, Digits) /\ DaypartEndAt(t, i) > 0
    THEN {None} \cup {Some(m) : m \in Moments}
    ELSE {None}

\* Incoming updates of the handler.
NoText == [text |-> None, sender |-> None]
MessageTexts ==
    { None, Some(<<" ">>), Some(<<"/", "s", "t", "a", "r", "t">>),
      Some(<<"3", ".", "0", "9">>),
      Some(<<" ", "k", "u", "p", "i", " ", "h", "l", "e", "b", " ",
             "1", "4", ":", "3", "0", " ">>),
      Some(<<"v", " ", "1", "5">>) }
Senders ==
    { None,
      Some([username |-> Some(<<"b", "o", "b">>), full_name |-> <<"B", "o", "b">>]),
      Some([username |-> None, full_name |-> <<"A", "n", "n", "a", " ", "2", "4", "/", "7">>]),
      Some([username |-> None, full_name |-> <<>>]) }
Updates == {[text |-> t, sender |-> sd] : t \in MessageTexts, sd \in Senders}
\* notify_chat_id: absent, or a chat id; utcoffset: UTC, Europe/Moscow.
Configs == {[notify_chat_id |-> n, utcoffset |-> o] : n \in {None, Some(77)}, o \in {0, 180}}
\* Outcomes of the task-creation call: a response with a status, or a
\* transport error (httpx raises: no connection, a timeout).
PostOutcomes ==
    {[error |-> FALSE, status |-> st] : st \in {200, 201, 401, 500}}
    \cup {[error |-> TRUE, status |-> 0]}

\* ------------------------------------------------------------------- Init
EngineIdle ==
    /\ pc = "start"
    /\ candidates = <<>>
    /\ matches = <<>>
    /\ labels = NoLabels
    /\ due = None
    /\ result = None
    /\ searchCalls = 0
HandlerOff ==
    /\ update = NoText
    /\ config = [notify_chat_id |-> None, utcoffset |-> 0]
    /\ hpc = "off"
    /\ task_text = <<>>
    /\ payload = None
    /\ posts = 0
    /\ response = None
    /\ replies = <<>>
    /\ notifications = <<>>

\* infer_due_datetime called on a text, alone.
Init ==
    /\ now \in Nows
    /\ \/ text \in TokenTexts /\ searchAnswers = FewAnswers(text)
       \/ text \in DayMonthTexts /\ searchAnswers = {<<>>}
       \/ /\ now \in LateNows
          /\ \E ms \in MatchLists : text = SpansOf(ms) /\ searchAnswers = {ms}
    /\ EngineIdle
    /\ HandlerOff

\* handle_message called on an update.
InitHandler ==
    /\ now \in LateNows
    /\ update \in Updates
    /\ config \in Configs
    /\ hpc = "entry"
    /\ text = <<>>
    /\ searchAnswers = {<<>>}
    /\ pc = "idle"
    /\ candidates = <<>>
    /\ matches = <<>>
    /\ labels = NoLabels
    /\ due = None
    /\ result = None
    /\ searchCalls = 0
    /\ task_text = <<>>
    /\ payload = None
    /\ posts = 0
    /\ response = None
    /\ replies = <<>>
    /\ notifications = <<>>

\* ------------------------------------------ the steps of infer_due_datetime
\* numeric_candidates = _extract_numeric_date_candidates(...); the branch on it.
ExtractNumericCandidates ==
    /\ pc = "start"
    /\ \E pd \in ParseDateAnswers(text) :
         \E found \in {_extract_numeric_date_candidates(text, now, pd)} :
            IF found.raised
            THEN pc' = "raised" /\ UNCHANGED candidates
            ELSE /\ candidates' = Val(found)
                 /\ pc' = IF Len(Val(found)) > 0 THEN "numeric" ELSE "search"
    /\ UNCHANGED <<text, now, searchAnswers, matches, labels, due, result, searchCalls>>
    /\ UNCHANGED handlerVars

\* if numeric_candidates: ... return
ReturnNumeric ==
    /\ pc = "numeric"
    /\ result' = Some(SelectNumeric(candidates, now))
    /\ pc' = "done"
    /\ UNCHANGED <<text, now, searchAnswers, candidates, matches, labels, due, searchCalls>>
    /\ UNCHANGED handlerVars

\* matches = search_dates(...)
SearchDates ==
    /\ pc = "search"
    /\ \E sr \in searchAnswers : matches' = sr
    /\ searchCalls' = searchCalls + 1
    /\ pc' = "searched"
    /\ UNCHANGED <<text, now, searchAnswers, candidates, labels, due, result>>
    /\ UNCHANGED handlerVars

\* if not matches: return default_due
ReturnNoMatches ==
    /\ pc = "searched"
    /\ Len(matches) = 0
    /\ result' = Some(DefaultDue(now))
    /\ pc' = "done"
    /\ UNCHANGED <<text, now, searchAnswers, candidates, matches, labels, due, searchCalls>>
    /\ UNCHANGED handlerVars

\* The loop over the matches.
Classify ==
    /\ pc = "searched"
    /\ Len(matches) > 0
    /\ labels' = ClassifyMatches(matches)
    /\ pc' = "classified"
    /\ UNCHANGED <<text, now, searchAnswers, candidates, matches, due, result, searchCalls>>
    /\ UNCHANGED handlerVars

\* The ladder over the labels.
Resolve ==
    /\ pc = "classified"
    /\ due' = Some(ResolveMatches(labels, matches, now))
    /\ pc' = "resolved"
    /\ UNCHANGED <<text, now, searchAnswers, candidates, matches, labels, result,
                   searchCalls>>
    /\ UNCHANGED handlerVars

\* The final guard and the return.
ReturnGuarded ==
    /\ pc = "resolved"
    /\ result' = Some(FinalGuard(Get(due), now))
    /\ pc' = "done"
    /\ UNCHANGED <<text, now, searchAnswers, candidates, matches, labels, due, searchCalls>>
    /\ UNCHANGED handlerVars

EngineNext ==
    \/ ExtractNumericCandidates
    \/ ReturnNumeric
    \/ SearchDates
    \/ ReturnNoMatches
    \/ Classify
    \/ Resolve
    \/ ReturnGuarded

Next == EngineNext
Spec == Init /\ [][Next]_vars

\* ---------------------------------------------- the steps of handle_message
StrippedText == IF IsNone(update.text) THEN <<>> ELSE Strip(Get(update.text))
SenderUsername == IF IsNone(update.sender) THEN None ELSE Get(update.sender).username
SenderName == IF IsNone(update.sender) THEN None ELSE Some(Get(update.sender).full_name)
\* The guards of lines 304-308.
Ignored ==
    IF IsNone(update.text) THEN TRUE
    ELSE IF Len(Get(update.text)) = 0 THEN TRUE
    ELSE IF Len(StrippedText) = 0 THEN TRUE
    ELSE StartsWith(StrippedText, <<"/", "s", "t", "a", "r", "t">>)
\* response.is_success
IsSuccess(status) == status >= 200 /\ status <= 299
\* if config.notify_chat_id:
NotifyConfigured == ~IsNone(config.notify_chat_id) /\ Get(config.notify_chat_id) # 0

HandleIgnored ==
    /\ hpc = "entry"
    /\ Ignored
    /\ hpc' = "returned"
    /\ UNCHANGED engineVars
    /\ UNCHANGED <<update, config, task_text, payload, posts, response, replies,
                   notifications>>

\* task_text = format_task_text(...); build_task_payload reads the clock and
\* calls infer_due_datetime on task_text.
BuildTaskText ==
    /\ hpc = "entry"
    /\ ~Ignored
    /\ \E t \in {format_task_text(StrippedText, SenderUsername, SenderName)} :
         /\ task_text' = t
         /\ text' = t
         /\ searchAnswers' = FewAnswers(t)
    /\ pc' = "start"
    /\ hpc' = "infer"
    /\ UNCHANGED <<now, candidates, matches, labels, due, result, searchCalls>>
    /\ UNCHANGED <<update, config, payload, posts, response, replies, notifications>>

\* build_task_payload(text, config): the payload around the inferred moment.
build_task_payload(title, due_datetime, cfg) ==
    [title |-> title,
     projectId |-> "ticktick_project_id",
     dueDate |-> DueDateText(due_datetime, cfg.utcoffset),
     timeZone |-> cfg.utcoffset,
     reminders |-> <<"TRIGGER:PT0S">>]
BuildPayload ==
    /\ hpc = "infer"
    /\ pc = "done"
    /\ payload' = Some(build_task_payload(task_text, Get(result), config))
    /\ hpc' = "post"
    /\ UNCHANGED engineVars
    /\ UNCHANGED <<update, config, task_text, posts, response, replies, notifications>>

\* response = await client.post(...): a response, or an exception that
\* nothing in handle_message catches.
PostTask ==
    /\ hpc = "post"
    /\ posts' = posts + 1
    /\ \E outcome \in PostOutcomes :
         IF outcome.error
         THEN hpc' = "raised" /\ UNCHANGED response
         ELSE hpc' = "responded" /\ response' = Some(outcome.status)
    /\ UNCHANGED engineVars
    /\ UNCHANGED <<update, config, task_text, payload, replies, notifications>>

ReplyAdded ==
    /\ hpc = "responded"
    /\ IsSuccess(Get(response))
    /\ replies' = Append(replies, [kind |-> "added", body |-> task_text])
    /\ hpc' = IF NotifyConfigured THEN "notify" ELSE "returned"
    /\ UNCHANGED engineVars
    /\ UNCHANGED <<update, config, task_text, payload, posts, response, notifications>>

NotifyChat ==
    /\ hpc = "notify"
    /\ notifications' =
         Append(notifications,
                [chat_id |-> Get(config.notify_chat_id),
                 sender |-> format_sender_label(SenderUsername, SenderName),
                 text |-> StrippedText,
                 due |-> format_due_datetime(Get(result))])
    /\ hpc' = "returned"
    /\ UNCHANGED engineVars
    /\ UNCHANGED <<update, config, task_text, payload, posts, response, replies>>

ReplyFailed ==
    /\ hpc = "responded"
    /\ ~IsSuccess(Get(response))
    /\ replies' = Append(replies, [kind |-> "failed", body |-> <<>>])
    /\ hpc' = "returned"
    /\ UNCHANGED engineVars
    /\ UNCHANGED <<update, config, task_text, payload, posts, response, notifications>>

HandlerNext ==
    \/ HandleIgnored
    \/ BuildTaskText
    \/ BuildPayload
    \/ PostTask
    \/ ReplyAdded
    \/ NotifyChat
    \/ ReplyFailed

NextHandler == EngineNext \/ HandlerNext
SpecHandler == InitHandler /\ [][NextHandler]_vars

\* ================================================================ the claims
Returned == pc = "done"
OnNumericPath == Len(candidates) > 0
\* A resolved moment that is not after now: the first numeric candidate, or
\* the moment of the generic search before the final guard.
ResolvedNotAfterNow ==
    \/ OnNumericPath /\ DtLessEq(candidates[1].datetime, now)
    \/ ~IsNone(due) /\ DtLessEq(Get(due), now)

\* C1: the returned moment is strictly after now or is exactly the default
\* due moment (now's date at 23:00), on the numeric path and on the generic
\* path.
C1_AfterNowOrDefault ==
    Returned => DtGreater(Get(result), now) \/ Get(result) = DefaultDue(now)
\* A past numeric date (1-01-20) collapsed to the default due moment.
C1_Witness ==
    /\ Returned
    /\ OnNumericPath
    /\ DtLessEq(candidates[1].datetime, now)
    /\ Get(result) = DefaultDue(now)
    /\ ~DtGreater(Get(result), now)

\* C2: the returned moment is never earlier than now, whatever past date or
\* time the text mentions and whatever the time of day of now.
C2_NeverInThePast ==
    Returned /\ ResolvedNotAfterNow => ~DtLess(Get(result), now)

ScenarioNow == At(2024, 1, 1, 9, 0, 0)
InScenario == text = Scenario /\ now = ScenarioNow
\* C3: for the scenario text "sozvon 3.09 v 15" at 2024-01-01 09:00 the date
\* is paired with the bare hour and the result is 2024-09-03 15:00.
C3_BareHourPaired ==
    InScenario /\ Returned => Get(result) = At(2024, 9, 3, 15, 0, 0)
\* C3 as amended: a bare hour is no time token, so the candidate of the
\* scenario has no explicit time and the result is 2024-09-03 at 23:00.
C3_BareHourIgnored ==
    InScenario /\ pc \in {"numeric", "done"} =>
        /\ candidates = <<[datetime |-> At(2024, 9, 3, 23, 0, 0),
                           has_time |-> FALSE, position |-> 7]>>
        /\ Returned => Get(result) = At(2024, 9, 3, 23, 0, 0)
C3_Witness == InScenario /\ Returned /\ OnNumericPath /\ searchCalls = 0

\* The numeric extractor has run: candidates is what it returned.
Extracted == pc \in {"numeric", "search", "searched", "classified", "resolved", "done"}
FirstIndex(S) == CHOOSE k \in S : \A j \in S : k <= j
\* The text is the year-less token d.m alone, d.m is a calendar date of
\* now's year, and that date precedes now's date.
PassedThisYear(d, m) ==
    /\ ~DateCtor(now.year, m, d).raised
    /\ DateLess([year |-> now.year, month |-> m, day |-> d], DateOf(now))
    /\ text = NumText(d) \o <<".">> \o Padded(m, 2)
NextYear(d, m) == [year |-> now.year + 1, month |-> m, day |-> d]
OneCandidateOn(date) ==
    Len(candidates) = 1 /\ DateOf(candidates[1].datetime) = date

\* C4: every year-less token D.M that is a calendar date of now's year and
\* precedes now's date resolves to the same day and month of the following
\* year, 29.02 in a leap year included.
C4_RolledToNextYear ==
    Extracted /\ Len(text) <= 5 =>
        \A d \in 1..31, m \in 1..12 :
            PassedThisYear(d, m) => OneCandidateOn(NextYear(d, m))
\* C4 as amended: such a token resolves to the same day and month of the
\* following year when that date exists there, and otherwise (29.02 before
\* a year that is not a leap year) yields no candidate; it never resolves
\* to the current year.
C4_RolledWhenDateExists ==
    Extracted /\ Len(text) <= 5 =>
        \A d \in 1..31, m \in 1..12 :
            PassedThisYear(d, m) =>
                IF DateCtor(now.year + 1, m, d).raised
                THEN candidates = <<>>
                ELSE OneCandidateOn(NextYear(d, m))
\* 3.09 on 2024-12-31 became 2025-09-03.
C4_Witness ==
    /\ Extracted
    /\ PassedThisYear(3, 9)
    /\ OneCandidateOn(NextYear(3, 9))
    /\ now.year = 2024

\* The kinds of the matches of the generic search, in their returned order.
IsCombined(m) == HasDate(m.text) /\ HasTime(m.text)
IsDateOnly(m) == HasDate(m.text) /\ ~HasTime(m.text)
IsTimeOnly(m) == HasTime(m.text) /\ ~HasDate(m.text)
CombinedAt == {k \in 1..Len(matches) : IsCombined(matches[k])}
DateOnlyAt == {k \in 1..Len(matches) : IsDateOnly(matches[k])}
TimeOnlyAt == {k \in 1..Len(matches) : IsTimeOnly(matches[k])}
OnGenericPath == candidates = <<>> /\ Len(matches) > 0
TimeOnlyCase ==
    OnGenericPath /\ TimeOnlyAt # {} /\ CombinedAt = {} /\ DateOnlyAt = {}
\* now's date at the time of day of the first time-only match.
TodayAtTime == Combine(DateOf(now), TimeOf(matches[FirstIndex(TimeOnlyAt)].parsed))
RolledTime == IF DtGreater(TodayAtTime, now) THEN TodayAtTime ELSE PlusOneDay(TodayAtTime)

\* C5: with a time-only match and no combined or date-only match, the
\* result is now's date at that time if that is after now and one calendar
\* day later otherwise; it is after now, so the final guard keeps it.
C5_TimeOnlyRollsForward ==
    Returned /\ TimeOnlyCase =>
        /\ Get(result) = RolledTime
        /\ DtGreater(Get(result), now)
        /\ result = due
\* 18:00 seen at 20:00: the next day at 18:00.
C5_Witness ==
    /\ Returned
    /\ TimeOnlyCase
    /\ DtLessEq(TodayAtTime, now)
    /\ Get(result) = PlusOneDay(TodayAtTime)

IsMoment(dt) ==
    /\ ~DateCtor(dt.year, dt.month, dt.day).raised
    /\ ~TimeCtor(dt.hour, dt.minute).raised
    /\ dt.second \in 0..59
InvalidDateTexts == {<<"3", "1", ".", "0", "4">>, <<"1", "8", ".", "0", "0">>}
DateWithBadClock == <<"3", ".", "0", "9", " ", "2", "5", ":", "9", "9">>
\* C6: infer_due_datetime never ends in an error and returns a moment; an
\* invalid numeric token (31.04, 18.00) contributes no candidate, and an
\* unparsable time next to a date (25:99) leaves the candidate without an
\* explicit time, at 23:00.
C6_Total ==
    /\ pc # "raised"
    /\ Returned => ~IsNone(result) /\ IsMoment(Get(result))
    /\ \A k \in 1..Len(candidates) :
         /\ IsMoment(candidates[k].datetime)
         /\ ~candidates[k].has_time => TimeOf(candidates[k].datetime) = DefaultTime
    /\ Extracted /\ text \in InvalidDateTexts => candidates = <<>>
    /\ Extracted /\ text = DateWithBadClock =>
         Len(candidates) = 1 /\ ~candidates[1].has_time
C6_Witness ==
    /\ Returned
    /\ text = DateWithBadClock
    /\ Len(candidates) = 1
    /\ ~candidates[1].has_time
    /\ IsMoment(Get(result))

Finished == hpc \in {"returned", "raised"}
Succeeded == ~IsNone(response) /\ IsSuccess(Get(response))
\* C7: for a message that is not ignored the task-creation call is made
\* once and the sender gets one reply: the confirmation after a 2xx status,
\* the failure message after any other status and after a transport error;
\* the secondary recipient is notified only after a success.
C7_OneCallOneReply ==
    Finished /\ ~Ignored =>
        /\ posts = 1
        /\ Len(replies) = 1
        /\ replies[1].kind = IF Succeeded THEN "added" ELSE "failed"
        /\ Len(notifications) > 0 => Succeeded

SortedByPosition ==
    \A j, k \in 1..Len(candidates) :
        j < k => candidates[j].position < candidates[k].position
TimedAfter ==
    {k \in 1..Len(candidates) :
        candidates[k].has_time /\ DtGreater(candidates[k].datetime, now)}
\* C8: with at least one numeric candidate the generic search is not
\* consulted and the result is the first candidate in position order with
\* an explicit time and after now; failing that the first candidate if it
\* is after now, and otherwise the default due moment.
C8_NumericSelection ==
    Returned /\ OnNumericPath =>
        /\ searchCalls = 0
        /\ matches = <<>>
        /\ SortedByPosition
        /\ Get(result) =
             IF TimedAfter # {} THEN candidates[FirstIndex(TimedAfter)].datetime
             ELSE IF DtGreater(candidates[1].datetime, now)
                  THEN candidates[1].datetime
                  ELSE DefaultDue(now)
\* The default is returned although a later candidate without a time is
\* after now.
C8_Witness ==
    /\ Returned
    /\ Len(candidates) > 1
    /\ TimedAfter = {}
    /\ ~DtGreater(candidates[1].datetime, now)
    /\ \E k \in 2..Len(candidates) : DtGreater(candidates[k].datetime, now)
    /\ Get(result) = DefaultDue(now)

\* The generic search has resolved a moment: due is the moment before the
\* final guard.
OnLadder == pc \in {"resolved", "done"} /\ ~IsNone(due)
\* The priority ladder over the matches, with timeOnly on its fourth rung.
LadderWith(timeOnly) ==
    IF CombinedAt # {} THEN AsTimezone(matches[FirstIndex(CombinedAt)].parsed)
    ELSE IF DateOnlyAt # {} /\ TimeOnlyAt # {}
    THEN Combine(DateOf(AsTimezone(matches[FirstIndex(DateOnlyAt)].parsed)),
                 TimeOf(matches[FirstIndex(TimeOnlyAt)].parsed))
    ELSE IF DateOnlyAt # {}
    THEN Combine(DateOf(AsTimezone(matches[FirstIndex(DateOnlyAt)].parsed)), DefaultTime)
    ELSE IF TimeOnlyAt # {} THEN timeOnly
    ELSE AsTimezone(matches[1].parsed)

\* C9: the moment before the final guard follows the ladder: the first
\* combined match; else the first date-only match's date with the first
\* time-only match's time; else a date-only match's date at 23:00; else
\* now's date at the time-only match's time; else the first match.
C9_Ladder ==
    OnLadder => Get(due) = LadderWith(TodayAtTime)
\* C9 as amended: the same ladder, whose time-only rung is now's date at
\* that time rolled forward one calendar day when it is not after now.
C9_LadderWithRoll ==
    OnLadder => Get(due) = LadderWith(RolledTime)
\* A combined match returned after a date-only match is the one used.
C9_Witness ==
    /\ OnLadder
    /\ Len(matches) = 2
    /\ IsDateOnly(matches[1])
    /\ IsCombined(matches[2])
    /\ Get(due) = AsTimezone(matches[2].parsed)

\* The task text handle_message would build for the sender sd.
TaskTextFor(sd) ==
    format_task_text(StrippedText,
                     IF IsNone(sd) THEN None ELSE Get(sd).username,
                     IF IsNone(sd) THEN None ELSE Some(Get(sd).full_name))
\* Every dueDate a run with the sender sd can put in the payload.
DueDatesOf(tt) ==
    {DueDateText(Val(infer_due_datetime(tt, now, sr, pd)), config.utcoffset) :
        sr \in FewAnswers(tt), pd \in ParseDateAnswers(tt)}
DueDatesFor(sd) == UNION {DueDatesOf(tt) : tt \in {TaskTextFor(sd)}}
\* C10: the dueDate of the payload does not depend on the sender: a run
\* with the same message, moment and configuration and any other sender
\* can produce the same dueDate.
C10_DueIgnoresSender ==
    hpc = "post" => \A sd \in Senders : Get(payload).dueDate \in DueDatesFor(sd)

====
